---- MODULE Spec2Model ----
(***************************************************************************)
(* WhaleImageManager (assets/image-management.js): the image dropdown of   *)
(* the ctfd-whale admin page.  The model follows the two promise chains    *)
(* (list request, refresh request) handler by handler, the DOM elements    *)
(* they mutate and the alerts they raise.                                  *)
(***************************************************************************)
EXTENDS Integers, Sequences, FiniteSets, TLC

\* ------------------------------------------------------------------ bounds
\* Requests (list or refresh) in flight at once.
MaxReq == 2
\* Longest image list of a list response.
MaxImages == 2
\* Calls of init() and of setupImageDropdown(), the init() at the end of the
\* script included.
MaxInit == 2

\* ------------------------------------------------------------- HTML strings
\* A string is a sequence of lexemes: text, an <option value="v"> start tag,
\* an </option> end tag.  This is what the HTML tokenizer makes of the text
\* assigned to innerHTML.
Text(s) == [t |-> "text", v |-> s]
Open(v) == [t |-> "open", v |-> v]
Close == [t |-> "close", v |-> ""]
Str(s) == <<Text(s)>>

\* A JavaScript value that may be undefined.
Undefined == [def |-> FALSE, s |-> <<>>]
Def(s) == [def |-> TRUE, s |-> s]
\* JavaScript truthiness of a possibly undefined string.
Truthy(m) == m.def /\ m.s # <<>>

\* -------------------------------------------------------------- the domain
Elements == {"dropdown", "loadButton", "refreshButton", "input"}
Names == {"ubuntu", "alpine"}
\* Server messages: absent, empty, plain text, and text that carries markup.
Messages ==
  { Undefined, Def(<<>>), Def(Str("locked")),
    Def(<<Text("no "), Close, Open("x"), Text("y")>>) }
\* Messages of errors (Error.message) a request can fail with.
ErrMsgs == {"Failed to fetch"}
\* The message of the TypeError that data.success throws when data is null:
\* the text is the engine's (here V8's and SpiderMonkey's).
NullErrMsgs ==
  { "Cannot read properties of null (reading 'success')",
    "data is null" }

SeqsUpTo(S, n) == UNION { [1..k -> S] : k \in 0..n }
\* data.data.images: absent, or a list of names (of the lists up to the
\* bound, those that do not have the same name twice in a row).
ImageLists ==
  {Undefined} \cup
  { Def(s) : s \in { q \in SeqsUpTo(Names, MaxImages) :
                       \A i \in 1..(Len(q) - 1) : q[i] # q[i + 1] } }

\* What response.json() resolves to: null, or an object.
NullData ==
  [null |-> TRUE, success |-> FALSE, images |-> Undefined, message |-> Undefined]
Response(success, images, message) ==
  [null |-> FALSE, success |-> success, images |-> images, message |-> message]
\* The list responses: null; success with every list of images (and with
\* one list also a message, which is not used then); success without
\* images and failure, each with every message; failure that has images.
ListData ==
  {NullData}
  \cup { Response(TRUE, i, Undefined) : i \in ImageLists }
  \cup { Response(TRUE, Def(<<"ubuntu">>), Def(Str("locked"))) }
  \cup { Response(TRUE, Undefined, m) : m \in Messages }
  \cup { Response(FALSE, Undefined, m) : m \in Messages }
  \cup { Response(FALSE, Def(<<"ubuntu">>), Def(Str("locked"))) }
\* The refresh responses: null; success without a message or with one;
\* failure with every message.
RefreshData ==
  {NullData}
  \cup { Response(TRUE, Undefined, m) : m \in {Undefined, Def(Str("locked"))} }
  \cup { Response(FALSE, Undefined, m) : m \in Messages }

\* The elements setupImageDropdown attaches a listener to.
Targets == {"loadButton", "refreshButton", "dropdown"}
\* window.location.search as the list of its parameters, each value as it
\* is written in the URL: no query, ?image=, ?tag=x&image=alpine%3Alatest.
Searches ==
  << <<>>,
     << [key |-> "image", value |-> ""] >>,
     << [key |-> "tag", value |-> "x"],
        [key |-> "image", value |-> "alpine%3Alatest"] >> >>

\* --------------------------------------------------------------- the state
VARIABLES
  present,          \* the elements document.getElementById finds
  options,          \* the <option> children of #available-images
  display,          \* dropdown.style.display
  loadDisabled,     \* loadButton.disabled
  refreshDisabled,  \* refreshButton.disabled
  refreshLabel,     \* refreshButton.innerHTML
  inputValue,       \* #docker_image's value
  alerts,           \* the alerts the operation that ran last has shown
  chains,           \* the promise chain of every request issued
  last,             \* the operation that ran last, with its input
  loading,          \* document.readyState === "loading"
  deferred,         \* the DOMContentLoaded listeners init() has added
  setups,           \* the runs of setupImageDropdown so far
  listeners         \* the listeners attached to each target

vars ==
  << present, options, display, loadDisabled, refreshDisabled, refreshLabel,
     inputValue, alerts, chains, last, loading, deferred, setups, listeners >>
\* What only init() and DOMContentLoaded change.
wiring == << loading, deferred, setups, listeners >>

Ids == 1..MaxReq
\* A promise chain: the request it waits for (kind), the reaction that is due
\* next (phase), the message of the error it is rejected with (err) and, for
\* a refresh, the label its closure holds (orig: originalText).
NoChain == [kind |-> "none", phase |-> "none", err |-> "", orig |-> ""]

\* ------------------------------------------------------------- innerHTML
\* The fragment parser in a <select>: a start tag closes an open option and
\* opens a new one; text goes into the open option and is no option outside
\* of one; an end tag closes the open option.
RECURSIVE ParseFrom(_, _, _, _)
ParseFrom(html, i, opts, open) ==
  IF i > Len(html) THEN opts
  ELSE LET x == html[i] IN
    CASE x.t = "open" ->
           ParseFrom(html, i + 1, Append(opts, [value |-> x.v, text |-> <<>>]), TRUE)
      [] x.t = "close" -> ParseFrom(html, i + 1, opts, FALSE)
      [] OTHER ->
           IF open
           THEN ParseFrom(html, i + 1,
                  [opts EXCEPT ![Len(opts)].text = Append(@, x)], TRUE)
           ELSE ParseFrom(html, i + 1, opts, open)

\* dropdown.innerHTML = html
SetInnerHTML(html) == ParseFrom(html, 1, <<>>, FALSE)

\* `<option value="">${text}</option>`
PlaceholderHTML(text) == <<Open("")>> \o text \o <<Close>>

LoadingText == Str("Loading available images...")
SelectText == Str("Select an image...")
NoImagesText == Str("No images found with configured prefix")
ErrorLoadingText == Str("Error loading images")
RefreshFailedText == Str("Failed to refresh images")
LoadFailedPrefix == Str("Failed to load images: ")
RefreshFailedPrefix == Str("Failed to refresh images: ")
SpinnerHTML == "<i class=\"fas fa-spinner fa-spin\"></i>"
OriginalLabel == "Refresh"

\* ----------------------------------------------------------------- helpers
\* What showAlert finds to show an alert with: CTFd.ui.ezq.ezAlert, the
\* alert function of the window, or neither.
AlertMethods == {"ezq", "alert", "none"}
\* The method found by an operation that calls showAlert, and the mark of
\* one that does not call it.
NotCalled == ""
Via(calls) == IF calls THEN AlertMethods ELSE {NotCalled}
\* `${message}`: the text of a value in a template literal.
Show(message) == IF message.def THEN message.s ELSE Str("undefined")
\* showAlert(title, message, type): ezAlert({title, body: message}), or
\* alert(`${title}: ${message}`), or only a warning on the console.
showAlert(shown, via, title, message) ==
  CASE via = "ezq" ->
         Append(shown, [via |-> "ezq", title |-> title, body |-> message])
    [] via = "alert" ->
         Append(shown, [via |-> "alert", title |-> "",
                        body |-> Def(Str(title) \o Str(": ") \o Show(message))])
    [] OTHER -> shown
\* No alert shown yet by the operation that starts.
NoAlerts == <<>>

Event(op, id, data) ==
  [op |-> op, id |-> id, data |-> data, arg |-> 0, via |-> NotCalled]
\* A handler that calls showAlert, which finds the method via.
Handled(op, id, data, via) ==
  [op |-> op, id |-> id, data |-> data, arg |-> 0, via |-> via]
\* An event dispatched to n listeners; arg is the index of the option a
\* change event selects, or the index in Searches of the query of the page
\* when setupImageDropdown runs.
Dispatch(op, n, arg) ==
  [op |-> op, id |-> n, data |-> NullData, arg |-> arg, via |-> NotCalled]

Used(ch) == Cardinality({ r \in Ids : ch[r].kind # "none" })
\* The request ids are reused: a new request takes the lowest free one.
FreeId(ch) ==
  CHOOSE r \in Ids : ch[r].kind = "none" /\ \A q \in 1..(r - 1) : ch[q].kind # "none"

\* Mutant of LoadProceeds: only the dropdown is looked for.
LoadProceedsDropdownOnly == "dropdown" \in present

\* if (!dropdown || !loadButton) return;
LoadProceeds == "dropdown" \in present /\ "loadButton" \in present
\* if (!refreshButton) return;
RefreshProceeds == "refreshButton" \in present

\* The bound on the requests in flight.  A pending refresh may still start
\* a load of its own, so an id is kept for it.
Reserved ==
  IF LoadProceeds
  THEN Cardinality({ r \in Ids : chains[r].kind = "refresh" /\ chains[r].phase = "pending" })
  ELSE 0
CanIssue(n) == Used(chains) + Reserved + n <= MaxReq

\* A call, a click and the delivery of a response are tasks of the event
\* loop: one starts only when the microtask queue is empty, that is when no
\* reaction of a settled promise is waiting.
Quiescent == \A r \in Ids : chains[r].phase \in {"none", "pending"}

\* Mutant of LoadingOptions: the dropdown is emptied while the request runs.
LoadingCleared == <<>>

\* dropdown.innerHTML = '<option value="">Loading available images...</option>'
LoadingOptions == SetInnerHTML(PlaceholderHTML(LoadingText))

\* Mutant of ImageOptions: the images are appended without the placeholder.
ImageOptionsNoPlaceholder(images) ==
  [i \in 1..Len(images) |-> [value |-> images[i], text |-> Str(images[i])]]

\* The placeholder, then one option per image made with createElement:
\* value and textContent are set as properties, nothing is parsed.
ImageOptions(images) ==
  SetInnerHTML(PlaceholderHTML(SelectText)) \o
  [i \in 1..Len(images) |-> [value |-> images[i], text |-> Str(images[i])]]

\* data.message || "No images found with configured prefix"
ListMessage(data) == IF Truthy(data.message) THEN data.message.s ELSE NoImagesText
\* dropdown.innerHTML = `<option value="">${message}</option>`
MessageOptions(message) == SetInnerHTML(PlaceholderHTML(message))
\* Mutant of ErrorOptions: the catch handler leaves the dropdown as it is.
ErrorOptionsStale == options

\* dropdown.innerHTML = '<option value="">Error loading images</option>'
ErrorOptions == SetInnerHTML(PlaceholderHTML(ErrorLoadingText))

\* data.success && data.data && data.data.images && data.data.images.length > 0
HasImages(data) == data.success /\ data.images.def /\ Len(data.images.s) > 0

\* Mutant of RefreshMessage: the server's message is ignored.
RefreshMessageDefault(data) == RefreshFailedText

\* data.message || "Failed to refresh images"
RefreshMessage(data) ==
  IF Truthy(data.message) THEN data.message.s ELSE RefreshFailedText

\* ------------------------------------------------------ loadAvailableImages
\* Mutant of loadAvailableImages: the trigger button is left as it is.
LoadKeepsButton(ch) ==
  IF LoadProceeds
  THEN [ options |-> LoadingOptions, display |-> "block",
         loadDisabled |-> loadDisabled,
         chains |-> [ch EXCEPT ![FreeId(ch)] =
                       [NoChain EXCEPT !.kind = "list", !.phase = "pending"]] ]
  ELSE [ options |-> options, display |-> display, loadDisabled |-> loadDisabled,
         chains |-> ch ]

\* The synchronous part of loadAvailableImages, as the values it leaves; ch
\* is the chains the new request is added to.
loadAvailableImages(ch) ==
  IF LoadProceeds
  THEN [ options |-> LoadingOptions, display |-> "block", loadDisabled |-> TRUE,
         chains |-> [ch EXCEPT ![FreeId(ch)] =
                       [NoChain EXCEPT !.kind = "list", !.phase = "pending"]] ]
  ELSE [ options |-> options, display |-> display, loadDisabled |-> loadDisabled,
         chains |-> ch ]

LoadCall ==
  /\ Quiescent
  /\ CanIssue(1)
  /\ last' = Event("load", IF LoadProceeds THEN FreeId(chains) ELSE 0, NullData)
  /\ LET e == loadAvailableImages(chains) IN
       /\ options' = e.options
       /\ display' = e.display
       /\ loadDisabled' = e.loadDisabled
       /\ chains' = e.chains
  /\ UNCHANGED wiring
  /\ UNCHANGED <<present, refreshDisabled, refreshLabel, inputValue>>
  /\ alerts' = NoAlerts

\* .then((data) => ...) of the list request r, resolved with data.
ListThen(r, data) ==
  /\ Quiescent
  /\ chains[r].kind = "list" /\ chains[r].phase = "pending"
  /\ \E via \in Via(~data.null /\ ~HasImages(data) /\ ~data.success) :
       /\ last' = Handled("listThen", r, data, via)
       /\ IF data.null
          THEN \* data.success throws a TypeError: the promise rejects
               /\ \E e \in NullErrMsgs :
                    chains' = [chains EXCEPT ![r].phase = "rejected", ![r].err = e]
               /\ UNCHANGED options
               /\ alerts' = NoAlerts
          ELSE /\ chains' = [chains EXCEPT ![r].phase = "fulfilled"]
               /\ IF HasImages(data)
                  THEN /\ options' = ImageOptions(data.images.s)
                       /\ alerts' = NoAlerts
                  ELSE /\ options' = MessageOptions(ListMessage(data))
                       /\ alerts' = IF ~data.success
                                    THEN showAlert(NoAlerts, via, "Error",
                                                   Def(ListMessage(data)))
                                    ELSE NoAlerts
  /\ UNCHANGED wiring
  /\ UNCHANGED <<present, display, loadDisabled, refreshDisabled, refreshLabel,
                 inputValue>>

\* The list request r rejects (network failure, body that is no JSON): the
\* then handler is skipped.
ListFail(r, e) ==
  /\ Quiescent
  /\ chains[r].kind = "list" /\ chains[r].phase = "pending"
  /\ last' = Event("listFail", r, NullData)
  /\ chains' = [chains EXCEPT ![r].phase = "rejected", ![r].err = e]
  /\ UNCHANGED wiring
  /\ UNCHANGED <<present, options, display, loadDisabled, refreshDisabled,
                 refreshLabel, inputValue>>
  /\ alerts' = NoAlerts

\* .catch((error) => ...) of the list request r.
ListCatch(r) ==
  /\ chains[r].kind = "list" /\ chains[r].phase = "rejected"
  /\ \E via \in Via(TRUE) :
       /\ last' = Handled("listCatch", r, NullData, via)
       /\ alerts' = showAlert(NoAlerts, via, "Error",
                              Def(LoadFailedPrefix \o Str(chains[r].err)))
  /\ options' = ErrorOptions
  /\ chains' = [chains EXCEPT ![r].phase = "handled", ![r].err = ""]
  /\ UNCHANGED wiring
  /\ UNCHANGED <<present, display, loadDisabled, refreshDisabled, refreshLabel,
                 inputValue>>

\* Mutant of FinallyDue: the cleanup runs only after a then handler that
\* returned, as a second .then() would.
FinallyOnlyFulfilled(phase) == phase = "fulfilled"

\* Mutant of FinallyDue: the cleanup does not wait for the request.
FinallyAnyPhase(phase) == phase \in {"pending", "fulfilled", "rejected", "handled"}

\* The phases of a chain in which its finally callback is due: after the
\* then handler returned, or after the catch handler did.
FinallyDue(phase) == phase \in {"fulfilled", "handled"}

\* .finally(() => { loadButton.disabled = false; }) of the list request r.
ListFinally(r) ==
  /\ chains[r].kind = "list" /\ FinallyDue(chains[r].phase)
  /\ last' = Event("listFinally", r, NullData)
  /\ loadDisabled' = FALSE
  /\ chains' = [chains EXCEPT ![r] = NoChain]
  /\ UNCHANGED wiring
  /\ UNCHANGED <<present, options, display, refreshDisabled, refreshLabel,
                 inputValue>>
  /\ alerts' = NoAlerts

\* -------------------------------------------------------- refreshImagesList
\* Mutant of ReloadAfterRefresh: a successful refresh does not reload.
NoReload(ch) ==
  [ options |-> options, display |-> display, loadDisabled |-> loadDisabled,
    chains |-> ch ]

\* this.loadAvailableImages() in the then handler of a refresh.
ReloadAfterRefresh(ch) == loadAvailableImages(ch)

\* The synchronous part of refreshImagesList, as the values it leaves; b is
\* the refresh button (disabled, label) and the chains it starts from.
refreshImagesList(b) ==
  IF RefreshProceeds
  THEN [ refreshDisabled |-> TRUE, refreshLabel |-> SpinnerHTML,
         chains |-> [b.chains EXCEPT ![FreeId(b.chains)] =
                       [NoChain EXCEPT !.kind = "refresh", !.phase = "pending",
                                       !.orig = b.refreshLabel]] ]
  ELSE b

RefreshCall ==
  /\ Quiescent
  /\ CanIssue(IF LoadProceeds THEN 2 ELSE 1)
  /\ last' = Event("refresh", IF RefreshProceeds THEN FreeId(chains) ELSE 0, NullData)
  /\ LET e == refreshImagesList([refreshDisabled |-> refreshDisabled,
                                 refreshLabel |-> refreshLabel,
                                 chains |-> chains]) IN
       /\ refreshDisabled' = e.refreshDisabled
       /\ refreshLabel' = e.refreshLabel
       /\ chains' = e.chains
  /\ UNCHANGED wiring
  /\ UNCHANGED <<present, options, display, loadDisabled, inputValue>>
  /\ alerts' = NoAlerts

\* .then((data) => ...) of the refresh request r, resolved with data.
RefreshThen(r, data) ==
  /\ Quiescent
  /\ chains[r].kind = "refresh" /\ chains[r].phase = "pending"
  /\ \E via \in Via(~data.null) :
       /\ last' = Handled("refreshThen", r, data, via)
       /\ IF data.null
          THEN /\ \E e \in NullErrMsgs :
                    chains' = [chains EXCEPT ![r].phase = "rejected", ![r].err = e]
               /\ UNCHANGED <<options, display, loadDisabled>>
               /\ alerts' = NoAlerts
          ELSE IF data.success
          THEN LET e == ReloadAfterRefresh([chains EXCEPT ![r].phase = "fulfilled"]) IN
                 /\ options' = e.options
                 /\ display' = e.display
                 /\ loadDisabled' = e.loadDisabled
                 /\ chains' = e.chains
                 /\ alerts' = showAlert(NoAlerts, via, "Success", data.message)
          ELSE /\ chains' = [chains EXCEPT ![r].phase = "fulfilled"]
               /\ alerts' = showAlert(NoAlerts, via, "Error",
                                      Def(RefreshMessage(data)))
               /\ UNCHANGED <<options, display, loadDisabled>>
  /\ UNCHANGED wiring
  /\ UNCHANGED <<present, refreshDisabled, refreshLabel, inputValue>>

\* The refresh request r rejects: the then handler is skipped.
RefreshFail(r, e) ==
  /\ Quiescent
  /\ chains[r].kind = "refresh" /\ chains[r].phase = "pending"
  /\ last' = Event("refreshFail", r, NullData)
  /\ chains' = [chains EXCEPT ![r].phase = "rejected", ![r].err = e]
  /\ UNCHANGED wiring
  /\ UNCHANGED <<present, options, display, loadDisabled, refreshDisabled,
                 refreshLabel, inputValue>>
  /\ alerts' = NoAlerts

\* .catch((error) => ...) of the refresh request r.
RefreshCatch(r) ==
  /\ chains[r].kind = "refresh" /\ chains[r].phase = "rejected"
  /\ \E via \in Via(TRUE) :
       /\ last' = Handled("refreshCatch", r, NullData, via)
       /\ alerts' = showAlert(NoAlerts, via, "Error",
                              Def(RefreshFailedPrefix \o Str(chains[r].err)))
  /\ chains' = [chains EXCEPT ![r].phase = "handled", ![r].err = ""]
  /\ UNCHANGED wiring
  /\ UNCHANGED <<present, options, display, loadDisabled, refreshDisabled,
                 refreshLabel, inputValue>>

\* .finally(() => { disabled = false; innerHTML = originalText; }) of r.
RefreshFinally(r) ==
  /\ chains[r].kind = "refresh" /\ FinallyDue(chains[r].phase)
  /\ last' = Event("refreshFinally", r, NullData)
  /\ refreshDisabled' = FALSE
  /\ refreshLabel' = chains[r].orig
  /\ chains' = [chains EXCEPT ![r] = NoChain]
  /\ UNCHANGED wiring
  /\ UNCHANGED <<present, options, display, loadDisabled, inputValue>>
  /\ alerts' = NoAlerts

\* ------------------------------------------------------ setupImageDropdown
\* What URLSearchParams.get returns: null, or the value of the parameter.
NoParam == [def |-> FALSE, v |-> ""]
Param(v) == [def |-> TRUE, v |-> v]
\* The percent-decoding URLSearchParams applies to the value of a parameter.
PercentDecode(raw) ==
  CASE raw = "alpine%3Alatest" -> "alpine:latest"
    [] OTHER -> raw
\* new URLSearchParams(query).get(name): the first parameter of that name.
URLGet(query, name) ==
  LET hits == { i \in 1..Len(query) : query[i].key = name } IN
    IF hits = {} THEN NoParam
    ELSE Param(PercentDecode(query[CHOOSE i \in hits : \A j \in hits : i <= j].value))

\* Mutant of Prefill: the value is copied as it is written in the URL.
PrefillRaw(search, value) ==
  LET hits == { i \in 1..Len(search) : search[i].key = "image" } IN
    IF hits # {} /\ "input" \in present
         /\ search[CHOOSE i \in hits : TRUE].value # ""
    THEN search[CHOOSE i \in hits : TRUE].value
    ELSE value

\* if (preselectedImage) { if (dockerImageInput) dockerImageInput.value = ... }
Prefill(search, value) ==
  LET preselectedImage == URLGet(search, "image") IN
    IF preselectedImage.def /\ preselectedImage.v # "" /\ "input" \in present
    THEN preselectedImage.v
    ELSE value

\* Mutant of Attach: a second listener on an element replaces the first.
AttachOnce(ls, t) == IF t \in present THEN [ls EXCEPT ![t] = 1] ELSE ls

\* if (element) element.addEventListener(...): every run adds a new closure,
\* so a listener is never the same as one attached before.
Attach(ls, t) == IF t \in present THEN [ls EXCEPT ![t] = @ + 1] ELSE ls

\* Mutant of setupImageDropdown: nothing is wired unless every element is
\* there.
SetupAllOrNothing(search, w) ==
  IF present = Elements
  THEN [ listeners |-> [t \in Targets |-> w.listeners[t] + 1],
         inputValue |-> Prefill(search, w.inputValue) ]
  ELSE w

\* One run of setupImageDropdown with window.location.search = search, as
\* the values it leaves; w is the listeners and the value of the text input
\* it starts from.
setupImageDropdown(search, w) ==
  [ listeners |-> Attach(Attach(Attach(w.listeners, "loadButton"),
                                "refreshButton"), "dropdown"),
    inputValue |-> Prefill(search, w.inputValue) ]

\* n runs of setupImageDropdown, one per DOMContentLoaded listener.
RECURSIVE SetupTimes(_, _, _)
SetupTimes(n, search, w) ==
  IF n = 0 THEN w ELSE setupImageDropdown(search, SetupTimes(n - 1, search, w))

\* A direct call of setupImageDropdown(), whatever the state of the document.
SetupCall(k) ==
  /\ Quiescent
  /\ setups + deferred < MaxInit
  /\ last' = Dispatch("setupCall", 1, k)
  /\ LET w == setupImageDropdown(Searches[k], [listeners |-> listeners,
                                               inputValue |-> inputValue]) IN
       /\ listeners' = w.listeners
       /\ inputValue' = w.inputValue
  /\ setups' = setups + 1
  /\ UNCHANGED <<loading, deferred>>
  /\ UNCHANGED <<present, options, display, loadDisabled, refreshDisabled,
                 refreshLabel, chains>>
  /\ alerts' = NoAlerts

\* init(): setupImageDropdown now, or when the document has been parsed.
InitCall(k) ==
  /\ Quiescent
  /\ setups + deferred < MaxInit
  /\ last' = Dispatch("initCall", IF loading THEN 0 ELSE 1, k)
  /\ IF loading
     THEN /\ deferred' = deferred + 1
          /\ UNCHANGED <<setups, listeners, inputValue>>
     ELSE LET w == setupImageDropdown(Searches[k], [listeners |-> listeners,
                                                   inputValue |-> inputValue]) IN
            /\ listeners' = w.listeners
            /\ inputValue' = w.inputValue
            /\ setups' = setups + 1
            /\ UNCHANGED deferred
  /\ UNCHANGED loading
  /\ UNCHANGED <<present, options, display, loadDisabled, refreshDisabled,
                 refreshLabel, chains>>
  /\ alerts' = NoAlerts

\* The parser is done: document.readyState leaves "loading".  The
\* DOMContentLoaded event comes later, and scripts may run in between.
Parsed ==
  /\ Quiescent
  /\ loading
  /\ last' = Event("parsed", 0, NullData)
  /\ loading' = FALSE
  /\ UNCHANGED <<deferred, setups, listeners>>
  /\ UNCHANGED <<present, options, display, loadDisabled, refreshDisabled,
                 refreshLabel, inputValue, chains>>
  /\ alerts' = NoAlerts

\* The DOMContentLoaded event of a parsed document: the listeners init() has
\* added run, and they are gone after it (the event fires once).
DOMContentLoaded(k) ==
  /\ Quiescent
  /\ ~loading /\ deferred >= 1
  /\ last' = Dispatch("DOMContentLoaded", deferred, k)
  /\ UNCHANGED loading
  /\ deferred' = 0
  /\ setups' = setups + deferred
  /\ LET w == SetupTimes(deferred, Searches[k], [listeners |-> listeners,
                                                 inputValue |-> inputValue]) IN
       /\ listeners' = w.listeners
       /\ inputValue' = w.inputValue
  /\ UNCHANGED <<present, options, display, loadDisabled, refreshDisabled,
                 refreshLabel, chains>>
  /\ alerts' = NoAlerts

\* ---------------------------------------------------------- the listeners
\* n runs of the click listener of the trigger button (n >= 1).
RECURSIVE LoadTimes(_, _)
LoadTimes(n, ch) ==
  IF n = 1 THEN loadAvailableImages(ch)
  ELSE loadAvailableImages(LoadTimes(n - 1, ch).chains)

\* A click on the trigger button (a disabled button fires none): every
\* listener attached calls loadAvailableImages.
ClickLoad ==
  /\ Quiescent
  /\ "loadButton" \in present /\ ~loadDisabled
  /\ listeners["loadButton"] >= 1
  /\ CanIssue(IF LoadProceeds THEN listeners["loadButton"] ELSE 0)
  /\ last' = Dispatch("clickLoad", listeners["loadButton"], 0)
  /\ LET e == LoadTimes(listeners["loadButton"], chains) IN
       /\ options' = e.options
       /\ display' = e.display
       /\ loadDisabled' = e.loadDisabled
       /\ chains' = e.chains
  /\ UNCHANGED wiring
  /\ UNCHANGED <<present, refreshDisabled, refreshLabel, inputValue>>
  /\ alerts' = NoAlerts

\* n runs of the click listener of the refresh button (n >= 1).
RECURSIVE RefreshTimes(_, _)
RefreshTimes(n, b) ==
  IF n = 1 THEN refreshImagesList(b)
  ELSE refreshImagesList(RefreshTimes(n - 1, b))

\* A click on the refresh button: every listener attached calls
\* refreshImagesList.
ClickRefresh ==
  /\ Quiescent
  /\ "refreshButton" \in present /\ ~refreshDisabled
  /\ listeners["refreshButton"] >= 1
  /\ CanIssue(listeners["refreshButton"] * (IF LoadProceeds THEN 2 ELSE 1))
  /\ last' = Dispatch("clickRefresh", listeners["refreshButton"], 0)
  /\ LET e == RefreshTimes(listeners["refreshButton"],
                           [refreshDisabled |-> refreshDisabled,
                            refreshLabel |-> refreshLabel,
                            chains |-> chains]) IN
       /\ refreshDisabled' = e.refreshDisabled
       /\ refreshLabel' = e.refreshLabel
       /\ chains' = e.chains
  /\ UNCHANGED wiring
  /\ UNCHANGED <<present, options, display, loadDisabled, inputValue>>
  /\ alerts' = NoAlerts

\* Mutant of Selects: the placeholder is copied as well.
SelectsAny(selectedImage) == "input" \in present

\* if (selectedImage) { if (dockerImageInput) ... }: the change listener is
\* to copy the selected value and hide the dropdown.
Selects(selectedImage) == selectedImage # "" /\ "input" \in present

\* Mutant of OnChange: the value is copied, the dropdown stays as it is.
OnChangeShown(selectedImage, w) ==
  IF Selects(selectedImage)
  THEN [inputValue |-> selectedImage, display |-> w.display]
  ELSE w

\* One run of the change listener with dropdown.value = selectedImage; w is
\* the value of the text input and the display of the dropdown.
OnChange(selectedImage, w) ==
  IF Selects(selectedImage)
  THEN [inputValue |-> selectedImage, display |-> "none"]
  ELSE w

RECURSIVE ChangeTimes(_, _, _)
ChangeTimes(n, selectedImage, w) ==
  IF n = 0 THEN w ELSE OnChange(selectedImage, ChangeTimes(n - 1, selectedImage, w))

\* A change event of the dropdown with its i-th option selected: every
\* listener attached runs.
Change(i) ==
  /\ Quiescent
  /\ "dropdown" \in present
  /\ listeners["dropdown"] >= 1
  /\ i \in 1..Len(options)
  /\ last' = Dispatch("change", listeners["dropdown"], i)
  /\ LET w == ChangeTimes(listeners["dropdown"], options[i].value,
                          [inputValue |-> inputValue, display |-> display]) IN
       /\ inputValue' = w.inputValue
       /\ display' = w.display
  /\ UNCHANGED wiring
  /\ UNCHANGED <<present, options, loadDisabled, refreshDisabled, refreshLabel,
                 chains>>
  /\ alerts' = NoAlerts

\* ------------------------------------------------------- the specification
\* The page once the script has run, its last line (init()) included: in a
\* document that is still being parsed init() has added its DOMContentLoaded
\* listener, in a parsed one it has run setupImageDropdown.
Init ==
  /\ present \in SUBSET Elements
  /\ options = <<>>
  /\ display = "none"
  /\ loadDisabled = FALSE
  /\ refreshDisabled = FALSE
  /\ refreshLabel = OriginalLabel
  /\ alerts = <<>>
  /\ chains = [r \in Ids |-> NoChain]
  /\ loading \in BOOLEAN
  /\ \E k \in DOMAIN Searches :
       LET blank == [listeners |-> [t \in Targets |-> 0], inputValue |-> ""]
           w == IF loading THEN blank ELSE setupImageDropdown(Searches[k], blank)
       IN /\ last = Dispatch("initCall", IF loading THEN 0 ELSE 1, k)
          /\ deferred = IF loading THEN 1 ELSE 0
          /\ setups = IF loading THEN 0 ELSE 1
          /\ listeners = w.listeners
          /\ inputValue = w.inputValue

Next ==
  \/ LoadCall
  \/ RefreshCall
  \/ \E r \in Ids, data \in ListData : ListThen(r, data)
  \/ \E r \in Ids, e \in ErrMsgs : ListFail(r, e)
  \/ \E r \in Ids : ListCatch(r)
  \/ \E r \in Ids : ListFinally(r)
  \/ \E r \in Ids, data \in RefreshData : RefreshThen(r, data)
  \/ \E r \in Ids, e \in ErrMsgs : RefreshFail(r, e)
  \/ \E r \in Ids : RefreshCatch(r)
  \/ \E r \in Ids : RefreshFinally(r)
  \/ \E k \in DOMAIN Searches : InitCall(k)
  \/ \E k \in DOMAIN Searches : SetupCall(k)
  \/ Parsed
  \/ \E k \in DOMAIN Searches : DOMContentLoaded(k)
  \/ ClickLoad
  \/ ClickRefresh
  \/ \E i \in 1..(MaxImages + 1) : Change(i)

Spec == Init /\ [][Next]_vars

\* The list request r settles: it resolves with some data, or it rejects.
ListSettles(r) ==
  /\ Quiescent
  /\ chains[r].kind = "list" /\ chains[r].phase = "pending"
  /\ \/ \E data \in ListData : ListThen(r, data)
     \/ \E e \in ErrMsgs : ListFail(r, e)

\* A reaction of a settled promise runs: the microtask queue is drained.
Microtask ==
  \E r \in Ids :
    /\ chains[r].phase \in {"fulfilled", "rejected", "handled"}
    /\ ListCatch(r) \/ ListFinally(r) \/ RefreshCatch(r) \/ RefreshFinally(r)

\* Every issued list request settles at last (its delivery is a task, which
\* waits for the microtask queue to be empty, hence strong fairness), and the
\* event loop runs the reactions that are due.
LiveSpec ==
  /\ Spec
  /\ WF_vars(Microtask)
  /\ \A r \in Ids : SF_vars(ListSettles(r))

\* ------------------------------------------------------------------ claims
ListChains(ch) == { r \in Ids : ch[r].kind = "list" }
RefreshChains(ch) == { r \in Ids : ch[r].kind = "refresh" }
\* The single empty-valued option with the given text.
Placeholder(text) == << [value |-> "", text |-> text] >>
\* The first option is an empty-valued placeholder.
PlaceholderFirst(opts) == Len(opts) >= 1 /\ opts[1].value = ""

\* C1: under LiveSpec (every list request settles), a state in which a load
\* has disabled the trigger button and its request is in flight leads to a
\* state in which the button is enabled, whatever way the request ends.
C1_ButtonReenabled ==
  (loadDisabled /\ ListChains(chains) # {}) ~> ~loadDisabled
\* A load has ended by its catch handler and the button is enabled again.
C1_Witness ==
  last.op = "listFinally" /\ ~loadDisabled /\ options = Placeholder(ErrorLoadingText)

\* C2: whenever no refresh request is in flight, the refresh button is
\* enabled and shows the label it had before any refresh was started.
C2_LabelRestored ==
  RefreshChains(chains) = {} => ~refreshDisabled /\ refreshLabel = OriginalLabel

\* C3: the then handler of a list response with success and N >= 1 images
\* leaves N+1 options, the placeholder and then one option per name in the
\* order of the response; the step after it is the cleanup of the same
\* request, which keeps these options and enables the trigger button.
C3_ImagesRendered ==
  [][ /\ (last'.op = "listThen" /\ HasImages(last'.data)) =>
           LET imgs == last'.data.images.s IN
             /\ Len(options') = Len(imgs) + 1
             /\ options'[1].value = ""
             /\ \A i \in 1..Len(imgs) :
                  options'[i + 1].value = imgs[i] /\ options'[i + 1].text = Str(imgs[i])
      /\ (last.op = "listThen" /\ HasImages(last.data)) =>
           /\ last'.op = "listFinally" /\ last'.id = last.id
           /\ options' = options
           /\ ~loadDisabled'
    ]_vars
\* Two images are listed, in the order alpine, ubuntu, and the button is enabled.
C3_Witness ==
  /\ last.op = "listFinally" /\ ~loadDisabled
  /\ Len(options) = 3 /\ options[2].value = "alpine" /\ options[3].value = "ubuntu"

\* The alert a shows the title and the message: as the title and the body
\* of an ezAlert, or as the text "title: message" of a window alert.
Carries(a, title, message) ==
  \/ a.via = "ezq" /\ a.title = title /\ a.body = message
  \/ a.via = "alert" /\ a.body = Def(Str(title) \o Str(": ") \o Show(message))
\* The step shows exactly one alert, with the title and the message.
OneAlert(title, message) ==
  Len(alerts') = 1 /\ Carries(alerts'[1], title, message)
\* The step calls showAlert once: it shows exactly one alert, or (not
\* strict) none when the page has neither ezAlert nor alert.
Alerted(strict, title, message) ==
  /\ last'.via # NotCalled
  /\ IF ~strict /\ last'.via = "none"
     THEN alerts' = <<>>
     ELSE OneAlert(title, message)

C4Step(strict) ==
  /\ (last'.op = "refreshThen" /\ ~last'.data.null /\ last'.data.success) =>
       /\ Alerted(strict, "Success", last'.data.message)
       /\ Cardinality(ListChains(chains')) =
            Cardinality(ListChains(chains)) + (IF LoadProceeds THEN 1 ELSE 0)
       /\ LoadProceeds => loadDisabled' /\ options' = Placeholder(LoadingText)
  /\ (last.op = "refreshThen" /\ ~last.data.null /\ last.data.success) =>
       /\ last'.op = "refreshFinally" /\ last'.id = last.id
       /\ alerts' = <<>>
       /\ ListChains(chains') = ListChains(chains)
\* C4 as stated: the then handler of a refresh response with success starts
\* exactly one load (one more list request when the dropdown and the
\* trigger button exist, none otherwise) and shows exactly one alert, titled
\* Success, with the server's message; the step after it is the cleanup of
\* that refresh, which shows no alert and starts no load.
C4_RefreshSuccess == [][C4Step(TRUE)]_vars
\* C4, amended: as above, but the alert is shown only when the page has an
\* alert method (CTFd's ezAlert or window.alert); without one showAlert
\* only warns on the console and no alert is shown.
C4_RefreshSuccessIfAlert == [][C4Step(FALSE)]_vars
\* A refresh has succeeded: its alert is up and the list request it
\* started is pending.
C4_Witness ==
  /\ last.op = "refreshThen" /\ last.data.success
  /\ alerts = << [via |-> "ezq", title |-> "Success", body |-> Def(Str("locked"))] >>
  /\ \E r \in Ids : chains[r].kind = "list" /\ chains[r].phase = "pending"

\* What a refresh must leave alone when it fails.
LoadSideUnchanged ==
  /\ options' = options /\ display' = display /\ loadDisabled' = loadDisabled
  /\ inputValue' = inputValue
  /\ ListChains(chains') = ListChains(chains)
\* The then handler has just run on a refresh response with success false.
RefreshRefused(e) == e.op = "refreshThen" /\ ~e.data.null /\ ~e.data.success

C5Step(strict) ==
  /\ RefreshRefused(last') =>
       /\ Alerted(strict, "Error",
                  Def(IF Truthy(last'.data.message)
                      THEN last'.data.message.s
                      ELSE RefreshFailedText))
       /\ LoadSideUnchanged
  /\ (last'.op = "refreshThen" /\ last'.data.null) \/ last'.op = "refreshFail" =>
       alerts' = <<>> /\ LoadSideUnchanged
  /\ ((last.op = "refreshThen" /\ last.data.null) \/ last.op = "refreshFail") =>
       /\ last'.op = "refreshCatch" /\ last'.id = last.id
       /\ Alerted(strict, "Error", Def(RefreshFailedPrefix \o Str(chains[last.id].err)))
       /\ LoadSideUnchanged
  /\ (RefreshRefused(last) \/ last.op = "refreshCatch") =>
       /\ last'.op = "refreshFinally" /\ last'.id = last.id
       /\ alerts' = <<>>
       /\ LoadSideUnchanged
\* C5 as stated: a refresh that fails shows exactly one alert, titled Error,
\* with the server's message (the default when there is none) or with the
\* error's message, starts no load, issues no list request and leaves the
\* dropdown, the trigger button and the text input as they are: by success
\* false the alert is the then handler's and the cleanup follows; by a
\* rejection or an exception the catch handler follows, shows the alert, and
\* the cleanup follows it.
C5_RefreshFailure == [][C5Step(TRUE)]_vars
\* C5, amended: as above, but the alert is shown only when the page has an
\* alert method; without one no alert is shown.
C5_RefreshFailureIfAlert == [][C5Step(FALSE)]_vars
\* A refresh was refused with the message "locked" while images were listed.
C5_Witness ==
  /\ RefreshRefused(last) /\ last.data.message = Def(Str("locked"))
  /\ alerts = << [via |-> "alert", title |-> "",
                  body |-> Def(<<Text("Error"), Text(": "), Text("locked")>>)] >>
  /\ Len(options) = 3
\* C6: a call that issues a request leaves its button disabled, and a button
\* goes from disabled to enabled only by the cleanup of a request of its
\* kind whose then or catch handler has returned; that step changes neither
\* the dropdown nor the alerts.
C6_DisableThenEnable ==
  [][ /\ (last'.op = "load" /\ last'.id # 0) =>
           loadDisabled' /\ chains'[last'.id].phase = "pending"
      /\ (last'.op = "refresh" /\ last'.id # 0) =>
           refreshDisabled' /\ chains'[last'.id].phase = "pending"
      /\ (loadDisabled /\ ~loadDisabled') =>
           /\ last'.op = "listFinally"
           /\ chains[last'.id].kind = "list"
           /\ chains[last'.id].phase \in {"fulfilled", "handled"}
           /\ options' = options /\ alerts' = <<>>
      /\ (refreshDisabled /\ ~refreshDisabled') =>
           /\ last'.op = "refreshFinally"
           /\ chains[last'.id].kind = "refresh"
           /\ chains[last'.id].phase \in {"fulfilled", "handled"}
           /\ options' = options /\ alerts' = <<>>
    ]_vars
\* The cleanup of a list request has enabled the button after its response
\* was rendered.
C6_Witness ==
  last.op = "listFinally" /\ ~loadDisabled /\ Len(options) = 2

\* C7: the then handler of a list response with success false and a message
\* shows exactly one alert with that message and leaves the dropdown with a
\* single empty-valued option whose text is the message; the cleanup
\* follows and enables the trigger button.
C7_ListRefused ==
  [][ /\ (last'.op = "listThen" /\ ~last'.data.null /\ ~last'.data.success
            /\ Truthy(last'.data.message)) =>
           /\ OneAlert("Error", last'.data.message)
           /\ options' = Placeholder(last'.data.message.s)
      /\ (last.op = "listThen" /\ ~last.data.null /\ ~last.data.success) =>
           /\ last'.op = "listFinally" /\ last'.id = last.id
           /\ ~loadDisabled'
    ]_vars

\* C8: the then handler of a list response with success true and no image
\* leaves the dropdown with a single empty-valued option whose text is the
\* server's message, or the default when there is none, and shows no alert.
C8_NoImages ==
  [][ (last'.op = "listThen" /\ ~last'.data.null /\ last'.data.success
         /\ ~HasImages(last'.data)) =>
        /\ options' = Placeholder(IF Truthy(last'.data.message)
                                  THEN last'.data.message.s
                                  ELSE NoImagesText)
        /\ alerts' = <<>>
    ]_vars

C9Step(strict) ==
  /\ last.op = "listFail" =>
       /\ last'.op = "listCatch" /\ last'.id = last.id
       /\ options' = Placeholder(ErrorLoadingText)
       /\ Alerted(strict, "Error", Def(LoadFailedPrefix \o Str(chains[last.id].err)))
       /\ chains[last.id].err \in ErrMsgs
  /\ last.op = "listCatch" =>
       /\ last'.op = "listFinally" /\ last'.id = last.id
       /\ alerts' = <<>> /\ options' = options
       /\ ~loadDisabled'
  /\ (last'.op = "load" /\ LoadProceeds) =>
       /\ last'.id # 0 /\ chains[last'.id].kind = "none"
       /\ chains'[last'.id].kind = "list" /\ chains'[last'.id].phase = "pending"
\* C9 as stated: when a list request is rejected, the catch handler follows,
\* leaves the single "Error loading images" placeholder and shows exactly
\* one alert, whose text ends with the error's message; the cleanup follows
\* and enables the trigger button; after it a load can be called, and a load
\* called with the elements present issues a new request.
C9_ListRejected ==
  /\ [][C9Step(TRUE)]_vars
  /\ [](last.op = "listFinally" => ENABLED LoadCall)
\* C9, amended: as above, but the alert is shown only when the page has an
\* alert method; without one no alert is shown (the placeholder and the
\* re-enabled button are the same).
C9_ListRejectedIfAlert ==
  /\ [][C9Step(FALSE)]_vars
  /\ [](last.op = "listFinally" => ENABLED LoadCall)
\* A list request was rejected with "Failed to fetch": the catch handler has
\* rendered the error placeholder and shown the alert.
C9_Witness ==
  /\ last.op = "listCatch"
  /\ options = Placeholder(ErrorLoadingText)
  /\ alerts = << [via |-> "ezq", title |-> "Error",
                  body |-> Def(LoadFailedPrefix \o Str("Failed to fetch"))] >>
  /\ loadDisabled

\* C10: with the dropdown and the trigger button present, a load leaves the
\* dropdown with an empty-valued first option, and no later step takes that
\* away.
C10_PlaceholderKept ==
  [][ /\ (last'.op = "load" /\ LoadProceeds) => PlaceholderFirst(options')
      /\ PlaceholderFirst(options) => PlaceholderFirst(options')
    ]_vars
\* A response whose message carries markup was rendered: several options,
\* the first of them the placeholder.
C10_Witness ==
  last.op = "listThen" /\ Len(options) = 2 /\ options[2].value = "x"
    /\ PlaceholderFirst(options)

\* C12: a load called while the dropdown or the trigger button is missing,
\* and a refresh called while the refresh button is missing, return at once:
\* no request is issued, no alert is shown, and no element changes.
C12_AbortWhenAbsent ==
  [][ (\/ last'.op = "load"
            /\ ("dropdown" \notin present \/ "loadButton" \notin present)
       \/ last'.op = "refresh" /\ "refreshButton" \notin present) =>
        /\ last'.id = 0
        /\ chains' = chains
        /\ alerts' = <<>>
        /\ options' = options /\ display' = display
        /\ loadDisabled' = loadDisabled
        /\ refreshDisabled' = refreshDisabled /\ refreshLabel' = refreshLabel
        /\ inputValue' = inputValue
    ]_vars
\* A load has returned at once in a page that has the dropdown but not the
\* trigger button, while a refresh request was in flight.
C12_Witness ==
  /\ last.op = "load" /\ last.id = 0
  /\ "dropdown" \in present /\ "loadButton" \notin present
  /\ \E r \in Ids : chains[r].kind = "refresh" /\ chains[r].phase = "pending"
  /\ options = <<>> /\ ~loadDisabled

\* The list requests that have not settled.
ListInFlight(ch) == { r \in Ids : ch[r].kind = "list" /\ ch[r].phase = "pending" }

\* C16 as stated: whenever a list request is in flight, the trigger button
\* is disabled.
C16_DisabledWhileInFlight ==
  ListInFlight(chains) # {} => loadDisabled
\* C16, amended: every step that issues a list request (a call, a click, the
\* then handler of a successful refresh) leaves the trigger button disabled,
\* and while a list request is in flight the button stays disabled across
\* every step but the cleanup of a list request; the cleanup of one request
\* enables the button also when other list requests are still in flight.
C16_DisabledUntilCleanup ==
  [][ /\ (ListInFlight(chains') \ ListInFlight(chains) # {}) => loadDisabled'
      /\ (ListInFlight(chains) # {} /\ loadDisabled /\ last'.op # "listFinally") =>
           loadDisabled'
      /\ (last'.op = "listFinally" /\ ListInFlight(chains') # {}) => ~loadDisabled'
    ]_vars
\* The cleanup of one list request has enabled the button while another
\* list request is in flight.
C16_Witness ==
  last.op = "listFinally" /\ ~loadDisabled /\ ListInFlight(chains) # {}

\* C17: the handler of a list outcome leaves options that the outcome alone
\* determines: N+1 options for a response with success and N >= 1 images,
\* exactly one option (the placeholder) for every other response and for a
\* failure; the loading placeholder is gone.
C17_OptionsReplaced ==
  [][ /\ (last'.op = "listThen" /\ ~last'.data.null) =>
           /\ Len(options') = IF HasImages(last'.data)
                              THEN Len(last'.data.images.s) + 1 ELSE 1
           /\ \A i \in 1..Len(options') : options'[i].text # LoadingText
      /\ last'.op = "listCatch" => options' = Placeholder(ErrorLoadingText)
    ]_vars

\* The step is a change event; Selected is the value of the option it
\* selects.
ChangeStep == last'.op = "change"
Selected == options[last'.arg].value

\* C11 as stated: a change event with a non-empty value selected copies the
\* value into the text input and hides the dropdown; one with the empty
\* placeholder selected changes neither.
C11_SelectionCopied ==
  [][ ChangeStep =>
        IF Selected # ""
        THEN inputValue' = Selected /\ display' = "none"
        ELSE inputValue' = inputValue /\ display' = display
    ]_vars
\* C11, amended: a change event with a non-empty value selected, in a page
\* that has the text input, copies the value into the text input and hides
\* the dropdown; a change event with the empty placeholder selected, or in a
\* page without the text input, changes neither the value nor the display.
C11_SelectionCopiedIfInput ==
  [][ ChangeStep =>
        IF Selected # "" /\ "input" \in present
        THEN inputValue' = Selected /\ display' = "none"
        ELSE inputValue' = inputValue /\ display' = display
    ]_vars
\* The second image listed was selected: the text input holds its name and
\* the dropdown is hidden.
C11_Witness ==
  /\ last.op = "change" /\ last.arg = 3
  /\ Len(options) = 3 /\ options[3].value = "ubuntu"
  /\ inputValue = "ubuntu" /\ display = "none"

\* The operations that run setupImageDropdown: init() in a parsed document,
\* a direct call, the DOMContentLoaded event after init().  e.id is the
\* number of runs, e.arg the index of the page's query in Searches.
SetupOps == {"initCall", "setupCall", "DOMContentLoaded"}
SetupDone(e) == e.op \in SetupOps /\ e.id >= 1
SetupStep == SetupDone(last')
\* The image parameter of the page's query.
PreselectedAt(e) == URLGet(Searches[e.arg], "image")
Preselected == PreselectedAt(last')
\* The state the script leaves when it has run: its own init() is the only
\* init() or setupImageDropdown() so far.
ScriptRan == last.op = "initCall" /\ setups + deferred = 1

\* C13: when the query of the page has a non-empty image parameter and the
\* text input exists, a run of setupImageDropdown (by the script's init(),
\* by a later init() or by DOMContentLoaded) leaves the parameter's
\* (decoded) value in the text input; and init(), a direct setup and
\* DOMContentLoaded issue no request, show no alert and leave both buttons
\* as they are: when the script has run no request is out.
C13_UrlPrefill ==
  /\ []((SetupDone(last) /\ PreselectedAt(last).def /\ PreselectedAt(last).v # ""
           /\ "input" \in present) =>
          inputValue = PreselectedAt(last).v)
  /\ [](ScriptRan => (alerts = <<>> /\ \A r \in Ids : chains[r] = NoChain))
  /\ [][ last'.op \in SetupOps =>
           /\ chains' = chains /\ alerts' = <<>>
           /\ loadDisabled' = loadDisabled /\ refreshDisabled' = refreshDisabled
       ]_vars
\* The document has been parsed with ?tag=x&image=alpine%3Alatest in the
\* URL: the deferred setup has filled the text input, and no request is out.
C13_Witness ==
  /\ last.op = "DOMContentLoaded" /\ last.id = 1 /\ last.arg = 3
  /\ inputValue = "alpine:latest"
  /\ \A r \in Ids : chains[r] = NoChain

\* The requests of a kind that have not settled.
InFlight(ch, kind) == { r \in Ids : ch[r].kind = kind /\ ch[r].phase = "pending" }

\* C14: every run of setupImageDropdown adds a listener to each element it
\* finds, so after n runs (n = 2 after two init() calls) a click on the
\* trigger button calls loadAvailableImages n times and issues n list
\* requests, a click on the refresh button calls refreshImagesList n times
\* and issues n refresh requests, and a change event runs its listener n
\* times.
C14_DoubleAttach ==
  [][ /\ last'.op = "clickLoad" =>
           /\ last'.id = setups
           /\ ("dropdown" \in present) =>
                Cardinality(InFlight(chains', "list")) =
                  Cardinality(InFlight(chains, "list")) + setups
      /\ last'.op = "clickRefresh" =>
           /\ last'.id = setups
           /\ Cardinality(InFlight(chains', "refresh")) =
                Cardinality(InFlight(chains, "refresh")) + setups
      /\ last'.op = "change" => last'.id = setups
    ]_vars
\* After two runs of the setup, one click on the trigger button has issued
\* two list requests.
C14_Witness ==
  /\ last.op = "clickLoad" /\ last.id = 2 /\ setups = 2
  /\ Cardinality(InFlight(chains, "list")) = 2

\* C15: whatever elements the page has, a run of setupImageDropdown adds one
\* listener to each of the trigger button, the refresh button and the
\* dropdown that is there and none to one that is not, and it prefills the
\* text input when the text input is there (and the URL has an image),
\* whether or not the other elements are: so each target that is there has
\* as many listeners as there were runs, and an absent one has none.
C15_IndependentWiring ==
  /\ [](\A t \in Targets : listeners[t] = IF t \in present THEN setups ELSE 0)
  /\ [](ScriptRan =>
          inputValue = IF setups = 1 /\ "input" \in present
                            /\ PreselectedAt(last).def /\ PreselectedAt(last).v # ""
                       THEN PreselectedAt(last).v ELSE "")
  /\ [][ last'.op \in SetupOps =>
           /\ \A t \in Targets :
                listeners'[t] = listeners[t] + (IF t \in present THEN last'.id ELSE 0)
           /\ inputValue' =
                IF last'.id >= 1 /\ "input" \in present
                     /\ Preselected.def /\ Preselected.v # ""
                THEN Preselected.v ELSE inputValue
       ]_vars
\* A page with the dropdown and the text input but neither button, after
\* the script's init() and a direct setupImageDropdown(): the dropdown has
\* its two listeners, the buttons none, and the text input is prefilled.
C15_Witness ==
  /\ present = {"dropdown", "input"} /\ last.op = "setupCall"
  /\ listeners = [t \in Targets |-> IF t = "dropdown" THEN 2 ELSE 0]
  /\ inputValue = "alpine:latest"

\* C18: the value of the text input changes only in a change event that
\* selects a non-empty option, to the value of that option, or in a run of
\* setupImageDropdown, to the image parameter of the URL; no call, response
\* or failure of a load or of a refresh changes it.
C18_InputOnlyBySelection ==
  [][ inputValue' # inputValue =>
        \/ ChangeStep /\ Selected # "" /\ inputValue' = Selected
        \/ SetupStep /\ Preselected.def /\ inputValue' = Preselected.v
    ]_vars
\* A selection made earlier is still in the text input after a later load
\* has been answered and a refresh has failed.
C18_Witness ==
  /\ inputValue = "alpine" /\ last.op = "refreshCatch"
  /\ Len(options) = 3 /\ display = "block"

====
